---------------------------- MODULE Spec2Model ----------------------------
(***************************************************************************)
(* Model of programmaticStretch.js: a window "message" listener that       *)
(* validates a cross-frame message, locates the ad iframe it refers to,    *)
(* resolves a height and resizes the iframe (or delegates to a publisher   *)
(* callback).                                                              *)
(*                                                                         *)
(* JavaScript values are records tagged with their typeof in field t.      *)
(* CSS texts, attribute values and computed-style values are sequences of  *)
(* one-character strings so that substring matching, parseInt and number   *)
(* formatting are computed, not assumed.  Identifiers (element ids, ad     *)
(* ids, sentinels) are TLA+ strings: the code only compares them.          *)
(***************************************************************************)
EXTENDS Integers, Sequences, FiniteSets, TLC

VARIABLES
    cfg,        \* window.programmaticStretch as the publisher last left it
    cfgAtLoad,  \* history: window.programmaticStretch when the script loaded
    googletag,  \* window.googletag
    apntag,     \* window.apntag
    dom,        \* the mutable part of every element of the document
    out         \* observation of the last operation that ran

vars == <<cfg, cfgAtLoad, googletag, apntag, dom, out>>

----------------------------------------------------------------------------
(* Bounds *)

\* longest googletag slot registry enumerated
MaxGptSlots == 2
\* largest height a slot configuration or a message carries in the
\* enumeration of resolveHeight's inputs
MaxHeight == 2

----------------------------------------------------------------------------
(* JavaScript values *)

JUndef == [t |-> "undefined"]
JNull == [t |-> "null"]
JNaN == [t |-> "number", nan |-> TRUE, n |-> 0]
JNum(n) == [t |-> "number", nan |-> FALSE, n |-> n]
JStr(s) == [t |-> "string", s |-> s]
JBool(b) == [t |-> "boolean", b |-> b]
\* a function value: name identifies it, throws says what a call does
JFn(name, throws) == [t |-> "function", name |-> name, throws |-> throws]

\* typeof v  (typeof null is "object")
Typeof(v) == IF v.t = "null" THEN "object" ELSE v.t

\* ToBoolean(v), as used by ||, &&, ! and if
Truthy(v) ==
    CASE v.t = "undefined" -> FALSE
      [] v.t = "null" -> FALSE
      [] v.t = "boolean" -> v.b
      [] v.t = "number" -> ~v.nan /\ v.n # 0
      [] v.t = "string" -> v.s # ""
      [] OTHER -> TRUE

\* a || b
Or(a, b) == IF Truthy(a) THEN a ELSE b

\* v === JStr(s)
IsString(v, s) == v.t = "string" /\ v.s = s

\* typeof v === 'number' && v > 0
IsPositiveNumber(v) == v.t = "number" /\ ~v.nan /\ v.n > 0

\* String(v) for the identifier-like values the DOM id lookups receive
IdOf(v) == IF v.t = "string" THEN v.s ELSE ""

----------------------------------------------------------------------------
(* Character sequences *)

Digits == <<"0", "1", "2", "3", "4", "5", "6", "7", "8", "9">>

IsDigit(c) == \E i \in 1..10 : Digits[i] = c

DigitVal(c) == (CHOOSE i \in 1..10 : Digits[i] = c) - 1

RECURSIVE NatToChars(_)
NatToChars(n) ==
    IF n < 10 THEN <<Digits[n + 1]>>
    ELSE Append(NatToChars(n \div 10), Digits[(n % 10) + 1])

\* String(n) for an integer n
NumToChars(n) == IF n < 0 THEN <<"-">> \o NatToChars(0 - n) ELSE NatToChars(n)

Contains(hay, needle) ==
    \E i \in 1..(Len(hay) - Len(needle) + 1) :
        SubSeq(hay, i, i + Len(needle) - 1) = needle

RECURSIVE SkipSpaces(_)
SkipSpaces(s) ==
    IF s # <<>> /\ Head(s) = " " THEN SkipSpaces(Tail(s)) ELSE s

RECURSIVE LeadingDigits(_, _)
LeadingDigits(s, acc) ==
    IF s # <<>> /\ IsDigit(Head(s))
    THEN LeadingDigits(Tail(s), acc * 10 + DigitVal(Head(s)))
    ELSE acc

\* parseInt(s, 10): leading blanks, an optional sign, then the longest run of
\* digits; NaN when there is no digit
parseInt(s) ==
    LET t == SkipSpaces(s)
        signed == t # <<>> /\ Head(t) \in {"+", "-"}
        u == IF signed THEN Tail(t) ELSE t
    IN  IF u = <<>> \/ ~IsDigit(Head(u)) THEN JNaN
        ELSE IF signed /\ Head(t) = "-" THEN JNum(0 - LeadingDigits(u, 0))
        ELSE JNum(LeadingDigits(u, 0))

Px == <<"p", "x">>
Full == <<"1", "0", "0", "%">>
DisplayNone == <<"d", "i", "s", "p", "l", "a", "y", ":", " ", "n", "o", "n", "e">>
DisplayNoneTight == <<"d", "i", "s", "p", "l", "a", "y", ":", "n", "o", "n", "e">>
BorderZero == <<"b", "o", "r", "d", "e", "r", ":", " ", "0">>

RECURSIVE DropSpaces(_)
DropSpaces(s) ==
    IF s = <<>> THEN <<>>
    ELSE IF Head(s) = " " THEN DropSpaces(Tail(s))
    ELSE <<Head(s)>> \o DropSpaces(Tail(s))


----------------------------------------------------------------------------
(* Objects *)

JObj(props) == [t |-> "object", props |-> props]

\* v[k] for a truthy v: an own property of an object, undefined otherwise
Get(v, k) ==
    IF v.t = "object" /\ k \in DOMAIN v.props THEN v.props[k] ELSE JUndef

\* the literal {}: every property reads undefined
EmptyObject == JObj([enabled |-> JUndef])

----------------------------------------------------------------------------
(* The document.  The tree is fixed; document order is node order.          *)
(*   1 body                                                                *)
(*     2 div            5 div               8 div        9 iframe          *)
(*       3 div            6 iframe 7 iframe                                *)
(*         4 iframe                                                        *)

Parent == <<0, 1, 2, 3, 1, 5, 5, 1, 1>>

Nodes == 1..Len(Parent)

Body == 1

\* document.querySelectorAll('iframe'), in document order
IframeList == <<4, 6, 7, 9>>

Iframes == {IframeList[i] : i \in 1..Len(IframeList)}

\* el.parentElement (0 is null)
parentElement(n) == Parent[n]

RECURSIVE IsDescendant(_, _)
IsDescendant(n, el) ==
    Parent[n] # 0 /\ (Parent[n] = el \/ IsDescendant(Parent[n], el))

\* the text of the style attribute: as authored until a CSSOM write, then the
\* serialisation of the declaration block
StyleAttr(n) ==
    IF ~dom[n].cssom THEN dom[n].styleText
    ELSE (IF dom[n].display = "none" THEN DisplayNone \o <<";", " ">> ELSE <<>>)
         \o (IF dom[n].width # <<>>
             THEN <<"w", "i", "d", "t", "h", ":", " ">> \o dom[n].width \o <<";", " ">>
             ELSE <<>>)
         \o (IF dom[n].height # <<>>
             THEN <<"h", "e", "i", "g", "h", "t", ":", " ">> \o dom[n].height \o <<";">>
             ELSE <<>>)

\* n matches iframe:not([style*="display: none"])
MatchesSelector(n) == n \in Iframes /\ ~Contains(StyleAttr(n), DisplayNone)

\* el.querySelector('iframe:not([style*="display: none"])') (0 is null)
querySelector(el) ==
    LET hits == {n \in Nodes : IsDescendant(n, el) /\ MatchesSelector(n)}
    IN  IF hits = {} THEN 0 ELSE CHOOSE n \in hits : \A m \in hits : n <= m

\* document.getElementById(id) (0 is null)
getElementById(id) ==
    LET hits == {n \in Nodes : id # "" /\ dom[n].id = id}
    IN  IF hits = {} THEN 0 ELSE CHOOSE n \in hits : \A m \in hits : n <= m

\* window.getComputedStyle(iframe).height
ComputedHeight(n) == dom[n].computedHeight

----------------------------------------------------------------------------
(* Configuration helpers *)

\* a configuration that went stale: the value the script saw when it loaded
getConfigCached == IF Truthy(cfgAtLoad) THEN cfgAtLoad ELSE EmptyObject

getConfig == IF Truthy(cfg) THEN cfg ELSE EmptyObject

getSlotConfig(adUnitCode) ==
    LET c == getConfig
        slots == Get(c, "slots")
        found == IF ~Truthy(slots) THEN slots
                 ELSE IF ~Truthy(adUnitCode) THEN adUnitCode
                 ELSE Get(slots, IdOf(adUnitCode))
    IN  Or(found, JNull)

----------------------------------------------------------------------------
(* Element lookup *)

RECURSIVE ScanSource(_, _)
ScanSource(ev, i) ==
    IF i > Len(IframeList) THEN 0
    ELSE IF ~dom[IframeList[i]].cwThrows /\ IframeList[i] = ev.source
         THEN IframeList[i]
    ELSE ScanSource(ev, i + 1)

findIframeBySource(ev) == ScanSource(ev, 1)

InSeq(x, s) == \E i \in 1..Len(s) : s[i] = x

RECURSIVE GptScan(_, _, _)
GptScan(adId, i, k) ==
    LET slots == googletag.slots IN
    IF i > Len(slots) THEN 0
    ELSE IF k > Len(slots[i].targeting) THEN GptScan(adId, i + 1, 1)
    ELSE LET values == slots[i].targeting[k]
             el == getElementById(slots[i].elementId)
         IN  IF adId.t = "string" /\ InSeq(adId.s, values) /\ el # 0
             THEN querySelector(el)
             ELSE GptScan(adId, i, k + 1)

\* an exception leaving a lookup instead of a node
Threw == 0 - 1

\* the body of the try block of findIframeByGptAdId
GptLookup(adId) ==
    IF googletag.t = "object" /\ googletag.pubads # "undefined"
    THEN IF googletag.pubads = "throws" THEN Threw ELSE GptScan(adId, 1, 1)
    ELSE 0

findIframeByGptAdId(adId) ==
    IF ~Truthy(adId) THEN 0
    ELSE IF GptLookup(adId) = Threw THEN 0
    ELSE GptLookup(adId)

\* the body of the try block of findIframeByApnTag
ApnLookup(adUnitCode) ==
    IF apntag.t = "object" /\ apntag.getTag # "undefined"
    THEN IF apntag.getTag = "throws" THEN Threw
         ELSE LET targetId == IF IdOf(adUnitCode) \in DOMAIN apntag.tags
                              THEN apntag.tags[IdOf(adUnitCode)] ELSE ""
                  el == getElementById(targetId)
              IN  IF targetId # "" /\ el # 0 THEN querySelector(el) ELSE 0
    ELSE 0

findIframeByApnTag(adUnitCode) ==
    IF ~Truthy(adUnitCode) THEN 0
    ELSE IF ApnLookup(adUnitCode) = Threw THEN 0
    ELSE ApnLookup(adUnitCode)

\* the last resort of findAdIframe: the adUnitCode as a DOM id
findIframeById(adUnitCode) ==
    IF Truthy(adUnitCode) /\ getElementById(IdOf(adUnitCode)) # 0
    THEN querySelector(getElementById(IdOf(adUnitCode)))
    ELSE 0

FirstFound(a, b) == IF a # 0 THEN a ELSE b

\* the direct id lookup tried first
findAdIframeIdFirst(ev, adId, adUnitCode) ==
    FirstFound(findIframeById(adUnitCode),
        FirstFound(findIframeBySource(ev),
            FirstFound(findIframeByGptAdId(adId),
                findIframeByApnTag(adUnitCode))))

findAdIframe(ev, adId, adUnitCode) ==
    FirstFound(findIframeBySource(ev),
        FirstFound(findIframeByGptAdId(adId),
            FirstFound(findIframeByApnTag(adUnitCode),
                findIframeById(adUnitCode))))

RECURSIVE GuessThroughBody(_)
GuessThroughBody(el) ==
    IF el = 0 THEN JNull
    ELSE IF dom[el].id # "" THEN JStr(dom[el].id)
    ELSE GuessThroughBody(parentElement(el))

\* the walk not stopped at document.body
guessAdUnitCodeThroughBody(iframe) ==
    IF iframe = 0 THEN JNull ELSE GuessThroughBody(parentElement(iframe))

RECURSIVE GuessFrom(_)
GuessFrom(el) ==
    IF el = 0 \/ el = Body THEN JNull
    ELSE IF dom[el].id # "" THEN JStr(dom[el].id)
    ELSE GuessFrom(parentElement(el))

guessAdUnitCode(iframe) ==
    IF iframe = 0 THEN JNull ELSE GuessFrom(parentElement(iframe))

----------------------------------------------------------------------------
(* Resize logic *)

getDimension(value) ==
    IF Truthy(value) THEN NumToChars(value.n) \o Px ELSE Full

\* the message height consulted before the slot configuration
resolveHeightMessageFirst(slotCfg, data, iframe) ==
    IF IsPositiveNumber(Get(data, "height")) THEN Get(data, "height")
    ELSE IF Truthy(slotCfg) /\ IsPositiveNumber(Get(slotCfg, "height"))
         THEN Get(slotCfg, "height")
    ELSE IF iframe # 0 /\ IsPositiveNumber(parseInt(ComputedHeight(iframe)))
         THEN parseInt(ComputedHeight(iframe))
    ELSE JNull

resolveHeight(slotCfg, data, iframe) ==
    IF Truthy(slotCfg) /\ IsPositiveNumber(Get(slotCfg, "height"))
    THEN Get(slotCfg, "height")
    ELSE IF IsPositiveNumber(Get(data, "height")) THEN Get(data, "height")
    ELSE IF iframe # 0 /\ IsPositiveNumber(parseInt(ComputedHeight(iframe)))
         THEN parseInt(ComputedHeight(iframe))
    ELSE JNull

\* el.style.width = w; el.style.height = h
SetStyle(d, el, w, h) ==
    IF el = 0 THEN d
    ELSE [d EXCEPT ![el].cssom = TRUE, ![el].width = w, ![el].height = h]

\* the height attribute written whether or not a height was resolved
defaultResizeAlwaysHeightAttr(iframe, width, height) ==
    LET widthCSS == getDimension(width)
        heightCSS == getDimension(height)
        d1 == SetStyle(dom, iframe, widthCSS, heightCSS)
        d2 == SetStyle(d1, parentElement(iframe), widthCSS, heightCSS)
    IN  [d2 EXCEPT ![iframe].widthAttr = Full,
                   ![iframe].heightAttr =
                       IF Truthy(height) THEN NumToChars(height.n)
                       ELSE <<"n", "u", "l", "l">>]

\* the document after defaultResize(iframe, width, height)
defaultResize(iframe, width, height) ==
    LET widthCSS == getDimension(width)
        heightCSS == getDimension(height)
        d1 == SetStyle(dom, iframe, widthCSS, heightCSS)
        d2 == SetStyle(d1, parentElement(iframe), widthCSS, heightCSS)
        d3 == [d2 EXCEPT ![iframe].widthAttr =
                  IF Truthy(width) THEN NumToChars(width.n) ELSE Full]
    IN  IF Truthy(height)
        THEN [d3 EXCEPT ![iframe].heightAttr = NumToChars(height.n)]
        ELSE d3

----------------------------------------------------------------------------
(* postMessage handler *)

MESSAGE_CREATIVE == "Prebid Creative"
ACTION_PROGRAMMATIC_STRETCH == "programmaticStretch"

\* the object a creative posts
StretchData(adId, adUnitCode, height) ==
    JObj([message |-> JStr(MESSAGE_CREATIVE),
          action |-> JStr(ACTION_PROGRAMMATIC_STRETCH),
          adId |-> adId, adUnitCode |-> adUnitCode, height |-> height])

\* JSON.parse on the texts the model posts: the value, or threw
JSONParse(text) ==
    CASE text = "null" -> [threw |-> FALSE, value |-> JNull]
      [] text = "5" -> [threw |-> FALSE, value |-> JNum(5)]
      [] text = "\"Prebid Creative\"" ->
            [threw |-> FALSE, value |-> JStr(MESSAGE_CREATIVE)]
      [] text = "[1]" -> [threw |-> FALSE, value |-> JObj([length |-> JNum(1)])]
      [] text = "{\"message\":\"Prebid Creative\",\"action\":\"resize\"}" ->
            [threw |-> FALSE,
             value |-> JObj([message |-> JStr(MESSAGE_CREATIVE),
                             action |-> JStr("resize")])]
      [] text = "{\"message\":\"Prebid Creative\",\"adId\":\"ad1\",\"action\":\"programmaticStretch\",\"height\":250}" ->
            [threw |-> FALSE,
             value |-> JObj([message |-> JStr(MESSAGE_CREATIVE),
                             adId |-> JStr("ad1"),
                             action |-> JStr(ACTION_PROGRAMMATIC_STRETCH),
                             height |-> JNum(250)])]
      [] OTHER -> [threw |-> TRUE]

\* lines 225-233: the payload, or nothing
ParseMessage(ev) ==
    LET raw == IF ev.data.t \notin {"null", "undefined"} THEN ev.data
               ELSE ev.message
    IN  IF Typeof(raw) = "string"
        THEN LET r == JSONParse(raw.s)
             IN  IF r.threw THEN [ok |-> FALSE] ELSE [ok |-> TRUE, data |-> r.value]
        ELSE IF Typeof(raw) = "object" THEN [ok |-> TRUE, data |-> raw]
        ELSE [ok |-> FALSE]

\* the action sentinel not compared
IsStretchMessageLoose(data) ==
    /\ Truthy(data)
    /\ IsString(Get(data, "message"), MESSAGE_CREATIVE)

\* lines 236-238, negated
IsStretchMessage(data) ==
    /\ Truthy(data)
    /\ IsString(Get(data, "message"), MESSAGE_CREATIVE)
    /\ IsString(Get(data, "action"), ACTION_PROGRAMMATIC_STRETCH)

\* the flag compared with the string 'false'
IsDisabledString(c) == IsString(Get(c, "enabled"), "false")

\* cfg.enabled === false
IsDisabled(c) == Get(c, "enabled") = JBool(FALSE)

LogEntry(level, what) == [level |-> level, what |-> what]

\* what one run of the handler did
Outcome(log, calls, lookups, thrown, newDom, iframe, adUnitCode, slotCfg, height) ==
    [log |-> log, calls |-> calls, lookups |-> lookups, thrown |-> thrown,
     dom |-> newDom, iframe |-> iframe, adUnitCode |-> adUnitCode,
     slotCfg |-> slotCfg, height |-> height]

Silent == Outcome(<<>>, <<>>, <<>>, FALSE, dom, 0, JNull, JNull, JNull)

\* the call made outside any try/catch
TryCallbackUncaught(fn, adId, height, iframe, ev) ==
    [calls |-> <<[fn |-> fn, adId |-> adId, height |-> height,
                  iframe |-> iframe, event |-> ev]>>,
     log |-> <<>>,
     thrown |-> fn.throws]

\* try { fn(adId, height, {iframe, event}) } catch (e) { logError(...) }
TryCallback(fn, adId, height, iframe, ev) ==
    [calls |-> <<[fn |-> fn, adId |-> adId, height |-> height,
                  iframe |-> iframe, event |-> ev]>>,
     log |-> IF fn.throws THEN <<LogEntry("error", "threw")>> ELSE <<>>,
     thrown |-> FALSE]

\* the global callback consulted before the slot-level one
SelectCallbackGlobalFirst(slotCfg, c) ==
    IF Typeof(Get(c, "resizeFunction")) = "function"
    THEN Get(c, "resizeFunction")
    ELSE IF Truthy(slotCfg) /\ Typeof(Get(slotCfg, "resizeFunction")) = "function"
         THEN Get(slotCfg, "resizeFunction")
    ELSE JUndef

\* lines 274-292: the callback responsible for the resize, or undefined
SelectCallback(slotCfg, c) ==
    IF Truthy(slotCfg) /\ Typeof(Get(slotCfg, "resizeFunction")) = "function"
    THEN Get(slotCfg, "resizeFunction")
    ELSE IF Typeof(Get(c, "resizeFunction")) = "function"
         THEN Get(c, "resizeFunction")
    ELSE JUndef

\* lines 259-298: the handler once the iframe is located
Resize(ev, data, c, adId, adUnitCode0, iframe) ==
    LET adUnitCode == IF ~Truthy(adUnitCode0) THEN guessAdUnitCode(iframe)
                      ELSE adUnitCode0
        slotCfg == getSlotConfig(adUnitCode)
        height == resolveHeight(slotCfg, data, iframe)
        width == JNull
        fn == SelectCallback(slotCfg, c)
        lookups == <<[adId |-> adId, adUnitCode |-> adUnitCode0]>>
    IN  IF fn.t = "function"
        THEN LET r == TryCallback(fn, adId, height, iframe, ev)
             IN  Outcome(r.log, r.calls, lookups, r.thrown, dom, iframe,
                         adUnitCode, slotCfg, height)
        ELSE Outcome(<<LogEntry("info", "applied")>>, <<>>, lookups, FALSE,
                     defaultResize(iframe, width, height), iframe,
                     adUnitCode, slotCfg, height)

onMessage(ev) ==
    LET p == ParseMessage(ev) IN
    IF ~p.ok THEN Silent
    ELSE IF ~IsStretchMessage(p.data) THEN Silent
    ELSE LET data == p.data
             adId == Or(Get(data, "adId"), JNull)
             adUnitCode == Or(Get(data, "adUnitCode"), JNull)
             c == getConfig
         IN  IF IsDisabled(c)
             THEN Outcome(<<LogEntry("warn", "disabled")>>, <<>>, <<>>, FALSE,
                          dom, 0, adUnitCode, JNull, JNull)
             ELSE LET iframe == findAdIframe(ev, adId, adUnitCode) IN
                  IF iframe = 0
                  THEN Outcome(<<LogEntry("warn", "no iframe")>>, <<>>,
                               <<[adId |-> adId, adUnitCode |-> adUnitCode]>>,
                               FALSE, dom, 0, adUnitCode, JNull, JNull)
                  ELSE Resize(ev, data, c, adId, adUnitCode, iframe)

----------------------------------------------------------------------------
(* Fixtures: documents, configurations and events the model runs on *)

MkNode(id, styleText, computedHeight, cwThrows) ==
    [id |-> id, styleText |-> styleText, cssom |-> FALSE,
     display |-> IF Contains(DropSpaces(styleText), DisplayNoneTight)
                 THEN "none" ELSE "",
     width |-> <<>>, height |-> <<>>, widthAttr |-> <<>>, heightAttr |-> <<>>,
     computedHeight |-> computedHeight, cwThrows |-> cwThrows]

Auto == <<"a", "u", "t", "o">>

BaseIds == <<"page", "slot-a", "", "", "slot-b", "", "", "slot-c", "">>
BaseStyles ==
    <<<<>>, <<>>, <<>>, <<>>, <<>>, DisplayNone \o <<";">>, BorderZero, <<>>, <<>>>>
BaseComputed ==
    <<Auto, Auto, Auto, <<"9", "0", "p", "x">>, Auto, Auto, <<"0", "p", "x">>,
      Auto, <<"1", "5", "0", ".", "5", "p", "x">>>>

BaseDom ==
    [n \in Nodes |-> MkNode(BaseIds[n], BaseStyles[n], BaseComputed[n], FALSE)]

SlotOk == JFn("slot", FALSE)
SlotThrows == JFn("slot", TRUE)
GlobalOk == JFn("global", FALSE)
GlobalThrows == JFn("global", TRUE)

SlotCfg(height, fn) == JObj([height |-> height, resizeFunction |-> fn])

MkCfg(enabled, fn, slots) ==
    JObj([enabled |-> enabled, resizeFunction |-> fn, slots |-> slots])

MkEvent(data, source) == [data |-> data, message |-> JUndef, source |-> source]

\* payloads that are not a programmaticStretch message
ForeignPayloads ==
    {JNum(5), JBool(TRUE), JStr("not json"), JStr("null"), JStr("5"),
     JStr("\"Prebid Creative\""), JStr("[1]"),
     JStr("{\"message\":\"Prebid Creative\",\"action\":\"resize\"}"),
     JObj([type |-> JStr("resize")]),
     JObj([message |-> JStr("other"), action |-> JStr(ACTION_PROGRAMMATIC_STRETCH)]),
     JObj([message |-> JStr(MESSAGE_CREATIVE), action |-> JStr("resize"),
           adUnitCode |-> JStr("slot-a")]),
     JObj([message |-> JStr(MESSAGE_CREATIVE), adUnitCode |-> JStr("slot-a")]),
     JObj([message |-> JNum(5), action |-> JNull])}

ForeignEvents ==
    {MkEvent(d, 4) : d \in ForeignPayloads}
    \cup {[data |-> JUndef, message |-> m, source |-> 4] :
             m \in {JUndef, JNull, JStr("not json")}}

StretchEvents ==
    {MkEvent(StretchData(JStr("ad1"), code, h), src) :
        code \in {JUndef, JStr("slot-a")},
        h \in {JUndef, JNum(250)},
        src \in {0, 4}}
    \cup {MkEvent(StretchData(JUndef, JStr("nowhere"), JUndef), 0),
          MkEvent(StretchData(JStr("ad1"), JStr("slot-b"), JNum(0)), 0),
          MkEvent(StretchData(JStr("ad2"), JUndef, JStr("250")), 0),
          MkEvent(JStr("{\"message\":\"Prebid Creative\",\"adId\":\"ad1\",\"action\":\"programmaticStretch\",\"height\":250}"), 4),
          [data |-> JNull,
           message |-> StretchData(JStr("ad1"), JStr("slot-b"), JUndef),
           source |-> 0]}

Events == ForeignEvents \cup StretchEvents

NoGpt == JUndef
NoApn == JUndef

GptWith(slots) == [t |-> "object", pubads |-> "function", slots |-> slots]
GptSlot(elementId, targeting) == [elementId |-> elementId, targeting |-> targeting]

ApnWith(tags) == [t |-> "object", getTag |-> "function", tags |-> tags]

----------------------------------------------------------------------------
(* The page: the listener and the publisher *)

Idle == [op |-> "idle"]

Handled(ev, r) ==
    [op |-> "onMessage", ev |-> ev, before |-> dom, log |-> r.log,
     calls |-> r.calls, lookups |-> r.lookups, thrown |-> r.thrown,
     iframe |-> r.iframe, adUnitCode |-> r.adUnitCode,
     slotCfg |-> r.slotCfg, height |-> r.height]

\* window.addEventListener('message', onMessage): one event delivered
OnMessage(ev) ==
    LET r == onMessage(ev) IN
    /\ dom' = r.dom
    /\ out' = Handled(ev, r)
    /\ UNCHANGED <<cfg, cfgAtLoad, googletag, apntag>>

Deliver == \E ev \in Events : OnMessage(ev)

\* window.programmaticStretch after the publisher assigns one property of it
Assign(k, v) == [cfg EXCEPT !.props[k] = v]

SetEnabled ==
    /\ cfg.t = "object"
    /\ \E b \in BOOLEAN :
          cfg.props.enabled # JBool(b) /\ cfg' = Assign("enabled", JBool(b))
    /\ out' = Idle
    /\ UNCHANGED <<cfgAtLoad, googletag, apntag, dom>>

SetResizeFunction ==
    /\ cfg.t = "object"
    /\ \E f \in {JUndef, GlobalOk, GlobalThrows} :
          cfg.props.resizeFunction # f /\ cfg' = Assign("resizeFunction", f)
    /\ out' = Idle
    /\ UNCHANGED <<cfgAtLoad, googletag, apntag, dom>>

SetSlots ==
    /\ cfg.t = "object"
    /\ \E sc \in {SlotCfg(JNum(300), JUndef), SlotCfg(JUndef, SlotOk),
                   SlotCfg(JNum(300), SlotThrows)} :
          /\ cfg.props.slots # JObj([x \in {"slot-a"} |-> sc])
          /\ cfg' = Assign("slots", JObj([x \in {"slot-a"} |-> sc]))
    /\ out' = Idle
    /\ UNCHANGED <<cfgAtLoad, googletag, apntag, dom>>

\* the publisher assigns or deletes window.programmaticStretch itself
ReplaceConfig ==
    /\ \E c \in {JUndef, MkCfg(JUndef, JUndef, JUndef)} :
          cfg # c /\ cfg' = c
    /\ out' = Idle
    /\ UNCHANGED <<cfgAtLoad, googletag, apntag, dom>>

Init ==
    /\ cfg \in {JUndef, MkCfg(JUndef, JUndef, JUndef)}
    /\ cfgAtLoad = cfg
    /\ googletag = GptWith(<<GptSlot("slot-b", <<<<"ad2">>>>)>>)
    /\ apntag = NoApn
    /\ dom = BaseDom
    /\ out = Idle

Next == Deliver \/ SetEnabled \/ SetResizeFunction \/ SetSlots \/ ReplaceConfig

Spec == Init /\ [][Next]_vars

----------------------------------------------------------------------------
(* What the claims speak of, read off the page rather than off the handler *)

HandledStretch == out.op = "onMessage" /\ out.ev \in StretchEvents

HandledForeign == out.op = "onMessage" /\ out.ev \in ForeignEvents

\* the posted object of a stretch event
Posted(ev) ==
    IF ev.data.t = "string" THEN StretchData(JStr("ad1"), JUndef, JNum(250))
    ELSE IF ev.data.t = "object" THEN ev.data
    ELSE ev.message

PostedAdId(ev) ==
    IF Posted(ev).props.adId.t = "string" THEN Posted(ev).props.adId ELSE JNull

\* the publisher's configuration object as it is now, if there is one
HasConfig == cfg.t = "object"

GlobalCallback ==
    IF HasConfig /\ cfg.props.resizeFunction.t = "function"
    THEN cfg.props.resizeFunction ELSE JUndef

\* the slot entry of the configuration as it is now for an ad unit code
SlotEntry(code) ==
    IF /\ HasConfig
       /\ cfg.props.slots.t = "object"
       /\ code.t = "string"
       /\ code.s \in DOMAIN cfg.props.slots.props
    THEN cfg.props.slots.props[code.s]
    ELSE JUndef

SlotCallback(code) ==
    IF SlotEntry(code).t = "object" /\ SlotEntry(code).props.resizeFunction.t = "function"
    THEN SlotEntry(code).props.resizeFunction ELSE JUndef

NowDisabled == HasConfig /\ cfg.props.enabled = JBool(FALSE)

Untouched == dom = out.before

OneCall(fn) ==
    out.calls = <<[fn |-> fn, adId |-> PostedAdId(out.ev), height |-> out.height,
                   iframe |-> out.iframe, event |-> out.ev]>>

----------------------------------------------------------------------------
(* Claims about the handler *)

\* C1: a message that is undecodable, not an object or string, null, or whose
\* message/action sentinels do not match is ignored: nothing is thrown, the
\* document is unchanged, no callback runs and nothing is logged.
C1_ForeignIgnored ==
    HandledForeign =>
        /\ ~out.thrown
        /\ Untouched
        /\ out.calls = <<>>
        /\ out.log = <<>>

\* a matching message sentinel with another action arrived while a resize
\* callback was configured
C1_Witness ==
    /\ HandledForeign
    /\ out.ev.data.t = "object"
    /\ "action" \in DOMAIN out.ev.data.props
    /\ out.ev.data.props.action = JStr("resize")
    /\ GlobalCallback.t = "function"

\* C2: with enabled false a valid message yields exactly one warning and
\* nothing else: no other log, no document change, no lookup, no callback.
C2_DisabledWarnsOnce ==
    HandledStretch /\ NowDisabled =>
        /\ out.log = <<LogEntry("warn", "disabled")>>
        /\ Untouched
        /\ out.lookups = <<>>
        /\ out.calls = <<>>
        /\ ~out.thrown

C2_Witness ==
    /\ HandledStretch
    /\ NowDisabled
    /\ GlobalCallback.t = "function"
    /\ SlotCallback(JStr("slot-a")).t = "function"
    /\ out.ev.source = 4

\* C4: with a slot-level and a global callback both configured, the slot-level
\* one is called exactly once with (adId, height, {iframe, event}), the global
\* one is not called and the document is not resized.
C4_SlotCallbackWins ==
    /\ HandledStretch
    /\ ~NowDisabled
    /\ out.iframe # 0
    /\ SlotCallback(out.adUnitCode).t = "function"
    /\ GlobalCallback.t = "function"
    => /\ OneCall(SlotCallback(out.adUnitCode))
       /\ out.calls[1].fn.name = "slot"
       /\ Untouched

C4_Witness ==
    /\ HandledStretch
    /\ out.iframe # 0
    /\ SlotCallback(out.adUnitCode).t = "function"
    /\ GlobalCallback.t = "function"
    /\ Len(out.calls) = 1

\* the callback the configuration makes responsible for the last message
Responsible ==
    IF SlotCallback(out.adUnitCode).t = "function"
    THEN SlotCallback(out.adUnitCode) ELSE GlobalCallback

\* C5: when the selected callback throws there is exactly one error log,
\* nothing propagates, no other callback runs and the document is unchanged.
C5_ThrowingCallbackContained ==
    /\ HandledStretch
    /\ ~NowDisabled
    /\ out.iframe # 0
    /\ Responsible.t = "function"
    /\ Responsible.throws
    => /\ out.log = <<LogEntry("error", "threw")>>
       /\ ~out.thrown
       /\ OneCall(Responsible)
       /\ Untouched

\* a throwing slot-level callback with a working global one behind it
C5_Witness ==
    /\ HandledStretch
    /\ out.iframe # 0
    /\ SlotCallback(out.adUnitCode) = SlotThrows
    /\ GlobalCallback = GlobalOk
    /\ out.log # <<>>

\* the CSS dimension the claim expects for a resolved height
ExpectedCss(h) == IF h = JNull THEN Full ELSE NumToChars(h.n) \o Px

\* C8: the default resize writes width 100% and the height (px, or 100% when
\* none was resolved) as inline CSS on the iframe and its parent, sets the
\* width attribute to 100%, sets the height attribute only for a resolved
\* height and touches no other element.
C8_DefaultResizeFrame ==
    /\ HandledStretch
    /\ ~NowDisabled
    /\ out.iframe # 0
    /\ Responsible.t # "function"
    => LET f == out.iframe
           p == Parent[f]
       IN  /\ dom[f].width = Full /\ dom[p].width = Full
           /\ dom[f].height = ExpectedCss(out.height)
           /\ dom[p].height = ExpectedCss(out.height)
           /\ dom[f].widthAttr = Full
           /\ dom[f].heightAttr =
                 IF out.height = JNull THEN out.before[f].heightAttr
                 ELSE NumToChars(out.height.n)
           /\ dom[p].widthAttr = out.before[p].widthAttr
           /\ dom[p].heightAttr = out.before[p].heightAttr
           /\ \A n \in Nodes \ {f, p} : dom[n] = out.before[n]

\* a default resize for which no height could be resolved
C8_Witness ==
    /\ HandledStretch
    /\ out.iframe # 0
    /\ out.calls = <<>>
    /\ out.height = JNull
    /\ dom[out.iframe].height = Full
    /\ dom[out.iframe].heightAttr = <<>>

\* C9: every message is handled under the configuration as it is at that
\* moment: the enabled flag, the callbacks and the slot height in force are
\* the current ones, whatever the configuration was before.
C9_ConfigReadFresh ==
    HandledStretch =>
        /\ NowDisabled <=> out.log = <<LogEntry("warn", "disabled")>>
        /\ ~NowDisabled /\ out.iframe # 0 =>
              /\ Responsible.t = "function" => OneCall(Responsible)
              /\ Responsible.t # "function" =>
                    out.calls = <<>> /\ out.log = <<LogEntry("info", "applied")>>
              /\ SlotEntry(out.adUnitCode).t = "object"
                   /\ IsPositiveNumber(SlotEntry(out.adUnitCode).props.height)
                 => out.height = SlotEntry(out.adUnitCode).props.height

\* a message handled after the publisher changed the configuration the
\* script was loaded with, the change deciding the outcome
C9_Witness ==
    /\ HandledStretch
    /\ cfg # cfgAtLoad
    /\ cfgAtLoad.t = "object"
    /\ NowDisabled
    /\ out.log = <<LogEntry("warn", "disabled")>>

----------------------------------------------------------------------------
(* resolveHeight on its own *)

\* computed heights a browser reports, each with the integer it starts with
ComputedCases ==
    {[text |-> <<"9", "0", "p", "x">>, hasInt |-> TRUE, int |-> 90],
     [text |-> <<"0", "p", "x">>, hasInt |-> TRUE, int |-> 0],
     [text |-> <<"1", "5", "0", ".", "5", "p", "x">>, hasInt |-> TRUE, int |-> 150],
     [text |-> <<"7", ".", "9", "p", "x">>, hasInt |-> TRUE, int |-> 7],
     [text |-> Auto, hasInt |-> FALSE, int |-> 0],
     [text |-> <<>>, hasInt |-> FALSE, int |-> 0]}

HeightInputs ==
    {JNum(n) : n \in (0 - 1)..MaxHeight}
    \cup {JUndef, JNull, JNaN, JStr("2"), JBool(TRUE)}

SlotCfgInputs == {JNull} \cup {SlotCfg(h, JUndef) : h \in HeightInputs}

InitHeight ==
    /\ cfg = JUndef
    /\ cfgAtLoad = cfg
    /\ googletag = NoGpt
    /\ apntag = NoApn
    /\ \E c \in ComputedCases :
          dom = [BaseDom EXCEPT ![4].computedHeight = c.text]
    /\ out = Idle

ResolveHeightCall ==
    \E slotCfg \in SlotCfgInputs, h \in HeightInputs, iframe \in {0, 4} :
        /\ out' = [op |-> "resolveHeight", slotCfg |-> slotCfg,
                   data |-> StretchData(JStr("ad1"), JUndef, h),
                   iframe |-> iframe,
                   result |-> resolveHeight(slotCfg,
                                 StretchData(JStr("ad1"), JUndef, h), iframe)]
        /\ UNCHANGED <<cfg, cfgAtLoad, googletag, apntag, dom>>

NextHeight == ResolveHeightCall

SpecHeight == InitHeight /\ [][NextHeight]_vars

\* a usable height: a number greater than zero
Usable(v) == v.t = "number" /\ ~v.nan /\ v.n > 0

SlotHeightGiven == IF out.slotCfg = JNull THEN JUndef ELSE out.slotCfg.props.height

MessageHeightGiven == out.data.props.height

\* the integer the iframe's computed height starts with, if it has one
ComputedGiven ==
    IF out.iframe = 0 THEN JUndef
    ELSE LET c == CHOOSE c \in ComputedCases : c.text = dom[out.iframe].computedHeight
         IN  IF c.hasInt THEN JNum(c.int) ELSE JUndef

\* C3: resolveHeight returns the first usable of the slot configuration's
\* height, the message's height and the integer part of the iframe's computed
\* height, and null when none is usable.
C3_HeightPriority ==
    out.op = "resolveHeight" =>
        out.result =
            IF Usable(SlotHeightGiven) THEN SlotHeightGiven
            ELSE IF Usable(MessageHeightGiven) THEN MessageHeightGiven
            ELSE IF Usable(ComputedGiven) THEN ComputedGiven
            ELSE JNull

\* all three levels are usable and differ, and the slot height was returned
C3_Witness ==
    /\ out.op = "resolveHeight"
    /\ Usable(SlotHeightGiven) /\ Usable(MessageHeightGiven) /\ Usable(ComputedGiven)
    /\ SlotHeightGiven # MessageHeightGiven
    /\ MessageHeightGiven # ComputedGiven
    /\ out.result = SlotHeightGiven

----------------------------------------------------------------------------
(* findAdIframe on its own *)

RECURSIVE SeqsUpTo(_, _)
\* the sequences over S of length at most n
SeqsUpTo(S, n) ==
    IF n = 0 THEN {<<>>}
    ELSE SeqsUpTo(S, n - 1)
         \cup {Append(q, x) : q \in {r \in SeqsUpTo(S, n - 1) : Len(r) = n - 1}, x \in S}

GptSlotChoices ==
    {GptSlot("slot-a", <<<<"ad1">>>>),
     GptSlot("slot-c", <<<<"ad1">>>>),
     GptSlot("slot-b", <<<<"x">>, <<"ad2", "ad1">>>>),
     GptSlot("gone", <<<<"ad1">>>>)}

\* googletag before the library loaded, with a pubads() that throws, and with
\* a slot registry
GptStub == [t |-> "object", pubads |-> "undefined", slots |-> <<>>]
GptThrowing == [t |-> "object", pubads |-> "throws", slots |-> <<>>]

GptChoices ==
    {NoGpt, GptStub, GptThrowing}
    \cup {GptWith(q) : q \in SeqsUpTo(GptSlotChoices, MaxGptSlots)}

ApnThrowing == [t |-> "object", getTag |-> "throws", tags |-> <<>>]

ApnChoices == {NoApn, ApnThrowing, ApnWith([x \in {"unit-1"} |-> "slot-b"])}

\* the base document; one whose hidden iframe is authored display:none; one
\* whose first iframe refuses access to its contentWindow
FindDoms ==
    {BaseDom,
     [BaseDom EXCEPT ![6] = MkNode("", DisplayNoneTight, Auto, FALSE)],
     [BaseDom EXCEPT ![4].cwThrows = TRUE]}

InitFind ==
    /\ cfg = JUndef
    /\ cfgAtLoad = cfg
    /\ googletag \in GptChoices
    /\ apntag \in ApnChoices
    /\ dom \in FindDoms
    /\ out = Idle

FindAdIframeCall ==
    \E source \in {0, 4},
       adId \in {JNull, JStr("ad1"), JStr("ad2")},
       adUnitCode \in {JNull, JStr("slot-a"), JStr("slot-c"), JStr("unit-1")} :
        LET ev == MkEvent(StretchData(adId, adUnitCode, JUndef), source) IN
        /\ out' = [op |-> "findAdIframe", source |-> source, adId |-> adId,
                   adUnitCode |-> adUnitCode,
                   bySource |-> findIframeBySource(ev),
                   byGpt |-> findIframeByGptAdId(adId),
                   byApn |-> findIframeByApnTag(adUnitCode),
                   byId |-> findIframeById(adUnitCode),
                   result |-> findAdIframe(ev, adId, adUnitCode)]
        /\ UNCHANGED <<cfg, cfgAtLoad, googletag, apntag, dom>>

NextFind == FindAdIframeCall

SpecFind == InitFind /\ [][NextFind]_vars

GptUsable == googletag.t = "object" /\ googletag.pubads = "function"

ApnUsable == apntag.t = "object" /\ apntag.getTag = "function"

SlotElement(i) == getElementById(googletag.slots[i].elementId)

\* the i-th registered slot carries the ad id among its targeting values
SlotCarries(i, adId) ==
    \E k \in 1..Len(googletag.slots[i].targeting) :
        InSeq(adId.s, googletag.slots[i].targeting[k])

\* the iframes under the i-th slot's element that count as visible, judged as
\* the lookup's own selector judges them
VisibleIframes(i) ==
    {n \in Iframes : SlotElement(i) # 0 /\ IsDescendant(n, SlotElement(i))
                     /\ MatchesSelector(n)}

\* C7: when a registered googletag slot carries the message's adId and its
\* element holds a visible iframe, the GPT strategy resolves to that slot's
\* first visible iframe although source match and direct id lookup fail,
\* whatever other slots are registered and in whatever order.
C7_GptResolves ==
    /\ out.op = "findAdIframe"
    /\ GptUsable
    /\ out.adId.t = "string"
    /\ out.bySource = 0
    /\ out.byId = 0
    /\ \E i \in 1..Len(googletag.slots) :
          SlotCarries(i, out.adId) /\ VisibleIframes(i) # {}
    => /\ out.result # 0
       /\ out.result = out.byGpt
       /\ \E i \in 1..Len(googletag.slots) :
             /\ SlotCarries(i, out.adId)
             /\ VisibleIframes(i) # {}
             /\ \A n \in VisibleIframes(i) : out.result <= n
             /\ out.result \in VisibleIframes(i)

----------------------------------------------------------------------------
(* The handler on documents whose containers do or do not carry ids *)

AdUnitDoms ==
    {[BaseDom EXCEPT ![2].id = id2, ![3].id = id3] :
        id2 \in {"slot-a", ""}, id3 \in {"wrap", ""}}

AdUnitSlots ==
    JObj([x \in {"page", "slot-a", "wrap", "slot-b"} |->
            CASE x = "page" -> SlotCfg(JNum(11), JUndef)
              [] x = "slot-a" -> SlotCfg(JNum(22), JUndef)
              [] x = "wrap" -> SlotCfg(JUndef, SlotOk)
              [] OTHER -> SlotCfg(JNum(44), JUndef)])

AdUnitEvents ==
    {MkEvent(StretchData(adId, code, JUndef), src) :
        adId \in {JStr("ad1"), JStr("ad2")},
        code \in {JUndef, JNull, JStr(""), JStr("slot-b"), JStr("wrap"), JStr("page")},
        src \in {0, 4, 9}}

InitAdUnit ==
    /\ cfg \in {JUndef, MkCfg(JUndef, JUndef, AdUnitSlots)}
    /\ cfgAtLoad = cfg
    /\ googletag = GptWith(<<GptSlot("slot-b", <<<<"ad2">>>>)>>)
    /\ apntag = NoApn
    /\ dom \in AdUnitDoms
    /\ out = Idle

DeliverAdUnit == \E ev \in AdUnitEvents : OnMessage(ev)

NextAdUnit == DeliverAdUnit

SpecAdUnit == InitAdUnit /\ [][NextAdUnit]_vars

\* the ancestors of an iframe below the body that have a non-empty id
IdAncestors(f) ==
    {a \in Nodes : IsDescendant(f, a) /\ IsDescendant(a, Body) /\ dom[a].id # ""}

\* the id of the nearest of them, or null
NearestId(f) ==
    IF IdAncestors(f) = {} THEN JNull
    ELSE LET a == CHOOSE a \in IdAncestors(f) :
                      \A b \in IdAncestors(f) \ {a} : IsDescendant(a, b)
         IN  JStr(dom[a].id)

PostedCode == out.ev.data.props.adUnitCode

CarriesCode == PostedCode.t = "string" /\ PostedCode.s # ""

\* C10: without an adUnitCode in the message the slot configuration is looked
\* up under the id of the iframe's nearest ancestor below the body that has
\* one (none: no slot configuration); with one it is looked up under that
\* value; the iframe is resolved once, with the message's own adUnitCode.
C10_AdUnitCodeDerivation ==
    out.op = "onMessage" /\ out.ev \in AdUnitEvents /\ out.iframe # 0 =>
        LET code == IF CarriesCode THEN PostedCode ELSE NearestId(out.iframe)
        IN  /\ out.adUnitCode = code
            /\ out.slotCfg =
                  IF SlotEntry(code).t = "object" THEN SlotEntry(code) ELSE JNull
            /\ out.lookups =
                  <<[adId |-> PostedAdId(out.ev),
                     adUnitCode |-> IF CarriesCode THEN PostedCode ELSE JNull]>>

\* an iframe directly under a body that has an id of its own and a slot
\* configured under that id: no slot configuration applied
C10_Witness ==
    /\ out.op = "onMessage" /\ out.ev \in AdUnitEvents
    /\ out.iframe = 9
    /\ ~CarriesCode
    /\ dom[Body].id = "page"
    /\ SlotEntry(JStr("page")).t = "object"
    /\ out.adUnitCode = JNull
    /\ out.slotCfg = JNull

=============================================================================
